---- MODULE Spec2Model ----
(***************************************************************************)
(* Model of the weewx-owm extension (bin/user/owm.py): the OpenWeatherMap  *)
(* RESTful service, its archive queue, and the OpenWeatherMapThread hooks  *)
(* format_url and get_post_body.                                           *)
(*                                                                         *)
(* The posting loop itself (weewx.restx.RESTThread: draining the queue,    *)
(* pacing, staleness, retries, the HTTP call) is the host framework's base *)
(* class and is not part of this extension's code.  It appears here only   *)
(* as RESTThreadGet, a nondeterministic consumer of the queue that may or  *)
(* may not hand a record it took to the hooks this extension overrides.    *)
(***************************************************************************)
EXTENDS Integers, Sequences, FiniteSets, TLC

\* ------------------------------------------------------------------ bounds
MaxSample == 2
MaxEvents == 3
MaxQueue == 2

\* ------------------------------------------------------- values and helpers
\* An observation is None or a number; a number n is held as <<n>>.
None == <<>>
Num(n) == <<n>>

\* A Python dict with string keys: a function whose domain is the key set.
EmptyDict == [k \in {} |-> None]

\* d with key k set to v (dict item assignment).
DictSet(d, k, v) == [x \in (DOMAIN d) \cup {k} |-> IF x = k THEN v ELSE d[x]]

\* dict.setdefault(k, v): sets k only when it is not a key already.
SetDefault(d, k, v) == IF k \in DOMAIN d THEN d ELSE DictSet(d, k, v)

\* Decimal numbers with ten fractional digits, as the pair <<hi, lo>> that
\* stands for (hi * DecBase + lo) * 10^-10 with 0 <= lo < DecBase.  The
\* scale 0.2777777777 of _DATA_MAP needs all ten digits, and its numerator
\* does not fit a machine integer, hence the two limbs.
DecBase == 100000

DecOfInt(n) == <<n * DecBase, 0>>

DecMul(v, d) ==
    LET t == v * d[2]
    IN  <<v * d[1] + (t \div DecBase), t % DecBase>>

DecAdd(a, b) ==
    LET t == a[2] + b[2]
    IN  <<a[1] + b[1] + (t \div DecBase), t % DecBase>>

\* --------------------------------------------------------- unit conversion
METRIC == 16
METRICWX == 17
UnitSystems == {METRIC, METRICWX}

WindFields == {"windSpeed", "windGust"}
RainFields == {"hourRain", "rain24"}

\* weewx.units.to_METRIC on one observation: METRICWX carries wind speeds in
\* m/s and rain in mm, METRIC carries them in km/h and cm.  None stays None.
ConvertToMetric(field, v, us) ==
    IF v = None THEN None
    ELSE IF us = METRICWX /\ field \in WindFields THEN Num((v[1] * 18) \div 5)
    ELSE IF us = METRICWX /\ field \in RainFields THEN Num(v[1] \div 10)
    ELSE v

to_METRIC(in_record) ==
    [k \in DOMAIN in_record |->
        IF k = "usUnits" THEN Num(METRIC)
        ELSE ConvertToMetric(k, in_record[k], in_record["usUnits"][1])]

\* ------------------------------------------------------ OpenWeatherMapThread
SERVER_URL == "http://api.openweathermap.org/data/3.0/measurements"

\* _DATA_MAP: target key |-> <<record key, scale, offset>>
DATA_MAP ==
    [dt          |-> <<"dateTime",    DecOfInt(1),      DecOfInt(0)>>,
     wind_deg    |-> <<"windDir",     DecOfInt(1),      DecOfInt(0)>>,
     wind_speed  |-> <<"windSpeed",   <<27777, 77777>>, DecOfInt(0)>>,
     wind_gust   |-> <<"windGust",    <<27777, 77777>>, DecOfInt(0)>>,
     temperature |-> <<"outTemp",     DecOfInt(1),      DecOfInt(0)>>,
     humidity    |-> <<"outHumidity", DecOfInt(1),      DecOfInt(0)>>,
     pressure    |-> <<"barometer",   DecOfInt(1),      DecOfInt(0)>>,
     rain_1h     |-> <<"hourRain",    DecOfInt(10),     DecOfInt(0)>>,
     rain_24h    |-> <<"rain24",      DecOfInt(10),     DecOfInt(0)>>]

Targets == DOMAIN DATA_MAP
SourceFields == {DATA_MAP[t][1] : t \in Targets}

\* The test of line 213: the record key is present and its value is not None.
HasValue(record, rkey) == rkey \in DOMAIN record /\ record[rkey] # None

\* PostValues with a missing or None observation sent as zero instead of
\* being left out.
PostValues_zero_default(station_id, record) ==
    [k \in {"station_id"} \cup Targets |->
        IF k = "station_id" THEN station_id
        ELSE IF HasValue(record, DATA_MAP[k][1])
        THEN DecAdd(DecMul(record[DATA_MAP[k][1]][1], DATA_MAP[k][2]), DATA_MAP[k][3])
        ELSE DecOfInt(0)]

\* The dict `values` of get_post_body, built from the converted record.
PostValues(station_id, record) ==
    [k \in {"station_id"} \cup {t \in Targets : HasValue(record, DATA_MAP[t][1])} |->
        IF k = "station_id" THEN station_id
        ELSE DecAdd(DecMul(record[DATA_MAP[k][1]][1], DATA_MAP[k][2]), DATA_MAP[k][3])]

\* get_post_body: the JSON document is a one-element list holding `values`.
get_post_body(station_id, in_record) ==
    [data |-> <<PostValues(station_id, to_METRIC(in_record))>>,
     mime |-> "application/json"]

\* format_url: "%s?appid=%s" % (server_url, appid), kept as its two parts.
format_url(thread) == <<thread.server_url, "?appid=", thread.appid>>

\* weeutil.weeutil.to_bool on the spellings a configuration file carries.
to_bool(x) == x \in {"true", "True", "yes"}

\* The strings float() accepts, among the ones a configuration may carry.
FloatStrings == {"12.5", "51.0", "-1.5", "100.0"}

\* The keyword arguments OpenWeatherMapThread.__init__ has no default for.
ThreadRequired == {"appid", "latitude", "longitude", "altitude", "station_id", "manager_dict"}

\* OpenWeatherMapThread(queue, **site_dict) raises: TypeError for a missing
\* required argument, ValueError from float() of a coordinate.
ThreadInitRaises(site_dict) ==
    \/ ~(ThreadRequired \subseteq DOMAIN site_dict)
    \/ \E c \in {"latitude", "longitude", "altitude"} : site_dict[c] \notin FloatStrings

Opt(site_dict, k, default) == IF k \in DOMAIN site_dict THEN site_dict[k] ELSE default

\* The attributes OpenWeatherMapThread.__init__ sets (lines 187-193).
OpenWeatherMapThread(site_dict) ==
    [appid       |-> site_dict["appid"],
     latitude    |-> site_dict["latitude"],
     longitude   |-> site_dict["longitude"],
     altitude    |-> site_dict["altitude"],
     station_id  |-> site_dict["station_id"],
     server_url  |-> Opt(site_dict, "server_url", SERVER_URL),
     skip_upload |-> to_bool(Opt(site_dict, "skip_upload", "False"))]

\* ------------------------------------------------------------ configuration
\* weeutil.weeutil.accumulateLeaves(section, max_level=1): the options of the
\* section, plus those of its parent that the section does not set itself.
accumulateLeaves(section, parent) ==
    [k \in (DOMAIN section) \cup (DOMAIN parent) |->
        IF k \in DOMAIN section THEN section[k] ELSE parent[k]]

\* The options the check of lines 106-107 looks up.
RequiredOptions == {"appid", "station_id"}

\* MissingOption with the station_id lookup of line 107 left out.
MissingOption_appid_only(section_present, site_dict) ==
    ~section_present \/ "appid" \notin DOMAIN site_dict

\* The try block of lines 103-110 raises KeyError.
MissingOption(section_present, site_dict) ==
    ~section_present \/ ~(RequiredOptions \subseteq DOMAIN site_dict)

\* The dicts that give each key of `choices` one of its values, or leave it
\* out where the value chosen is "".
DictsOf(choices) ==
    LET All == UNION {choices[k] : k \in DOMAIN choices}
        Picks == {f \in [DOMAIN choices -> All] : \A k \in DOMAIN choices : f[k] \in choices[k]}
    IN  {[k \in {x \in DOMAIN f : f[x] # ""} |-> f[k]] : f \in Picks}

\* [StdRESTful] options inherited by the section.
ParentLeaves == DictsOf([appid |-> {"", "PARENTKEY"}])

\* [StdRESTful][[OpenWeatherMap]] as a configuration file may spell it.
Sections ==
    DictsOf([appid       |-> {"", "APPID"},
             station_id  |-> {"", "STATION"},
             latitude    |-> {"", "12.5", "north"},
             skip_upload |-> {"", "true"}])

\* engine.stn_info: the station's own coordinates, the defaults of 111-113.
stn_info == [latitude |-> "51.0", longitude |-> "-1.5", altitude |-> "100.0"]

\* ------------------------------------------------------------------ records
\* Sample observations: the k-th sample of a field in the unit system `us`.
SampleBase(field, us) ==
    CASE field = "dateTime"    -> 60
      [] field = "windDir"     -> 90
      [] field = "windSpeed"   -> IF us = METRICWX THEN 5 ELSE 18
      [] field = "windGust"    -> IF us = METRICWX THEN 10 ELSE 36
      [] field = "outTemp"     -> -5
      [] field = "outHumidity" -> 40
      [] field = "barometer"   -> 1000
      [] field = "hourRain"    -> IF us = METRICWX THEN 20 ELSE 2
      [] field = "rain24"      -> IF us = METRICWX THEN 30 ELSE 3

\* The record whose field f is left out, None or the k-th sample, as shape[f]
\* says.
MakeRecord(shape, us, k) ==
    [f \in {"usUnits"} \cup {x \in DOMAIN shape : shape[x] # "absent"} |->
        IF f = "usUnits" THEN Num(us)
        ELSE IF shape[f] = "none" THEN None
        ELSE Num(k * SampleBase(f, us))]

Shapes == [SourceFields -> {"absent", "none", "value"}]

\* Every combination of absent, None and present observations.
AllRecords ==
    {MakeRecord(shape, us, k) : shape \in Shapes, us \in UnitSystems, k \in 1..MaxSample}

\* The records the engine dispatches in the model of the whole service: a
\* timestamp, and an outside temperature that is absent, None or present.
EventShapes ==
    {shape \in Shapes :
        /\ shape["dateTime"] = "value"
        /\ \A f \in SourceFields \ {"dateTime", "outTemp"} : shape[f] = "absent"}

EventRecords ==
    {MakeRecord(shape, METRIC, k) : shape \in EventShapes, k \in 1..MaxSample}

\* -------------------------------------------------------------------- state
VARIABLES
    weewx_has_post_body, \* weewx.restx.RESTThread has get_post_body (WeeWX >= 3.8)
    has_section,         \* config_dict['StdRESTful'] has an OpenWeatherMap section
    parent_leaves,       \* the options set at the [StdRESTful] level
    section,             \* the options of [[OpenWeatherMap]]
    pc,                  \* where OpenWeatherMap.__init__ is, or how it ended
    queue_created,       \* self.archive_queue exists
    archive_queue,       \* the records in self.archive_queue, oldest first
    thread_started,      \* self.archive_thread.start() was called
    archive_thread,      \* the attributes of self.archive_thread
    bound,               \* new_archive_record is bound to NEW_ARCHIVE_RECORD
    events,              \* NEW_ARCHIVE_RECORD events the engine has dispatched
    taken,               \* records the thread has taken off the queue
    hook_calls,          \* calls of format_url/get_post_body so far
    in_record,           \* the record handed to them
    post_url,            \* what format_url returned for it
    post_body            \* what get_post_body returned for it

vars == <<weewx_has_post_body, has_section, parent_leaves, section, pc,
          queue_created, archive_queue, thread_started, archive_thread, bound,
          events, taken, hook_calls, in_record, post_url, post_body>>

config_vars == <<weewx_has_post_body, has_section, parent_leaves, section>>
hook_vars == <<hook_calls, in_record, post_url, post_body>>

NoRecord == EmptyDict
NoUrl == <<>>
NoBody == [data |-> <<>>, mime |-> ""]

\* site_dict as lines 104-105 compute it.
SiteDict == accumulateLeaves(section, parent_leaves)

\* site_dict as lines 111-115 complete it.
FullSiteDict ==
    LET a == SetDefault(SiteDict, "latitude", stn_info.latitude)
        b == SetDefault(a, "longitude", stn_info.longitude)
        c == SetDefault(b, "altitude", stn_info.altitude)
    IN  DictSet(c, "manager_dict", "wx_binding")

Unstarted ==
    /\ pc = "new"
    /\ queue_created = FALSE
    /\ archive_queue = <<>>
    /\ thread_started = FALSE
    /\ archive_thread = EmptyDict
    /\ bound = FALSE
    /\ events = 0
    /\ taken = 0
    /\ hook_calls = 0
    /\ in_record = NoRecord
    /\ post_url = NoUrl
    /\ post_body = NoBody

\* The engine has read its configuration and is about to load the service.
Init ==
    /\ weewx_has_post_body \in BOOLEAN
    /\ has_section \in BOOLEAN
    /\ parent_leaves \in ParentLeaves
    /\ section \in (IF has_section THEN Sections ELSE {EmptyDict})
    /\ Unstarted

\* OpenWeatherMap.__init__, whole.
ServiceInit ==
    /\ pc = "new"
    /\ IF ~weewx_has_post_body
         THEN \* lines 96-101: this WeeWX cannot post JSON
              /\ pc' = "skipped"
              /\ UNCHANGED <<queue_created, thread_started, archive_thread, bound>>
         ELSE IF MissingOption(has_section, SiteDict)
         THEN \* lines 108-110: KeyError caught, logged, return
              /\ pc' = "missing"
              /\ UNCHANGED <<queue_created, thread_started, archive_thread, bound>>
         ELSE IF ThreadInitRaises(FullSiteDict)
         THEN \* line 117 ran, line 118 raised out of the constructor
              /\ pc' = "raised"
              /\ queue_created' = TRUE
              /\ UNCHANGED <<thread_started, archive_thread, bound>>
         ELSE \* lines 117-121
              /\ pc' = "running"
              /\ queue_created' = TRUE
              /\ archive_thread' = OpenWeatherMapThread(FullSiteDict)
              /\ thread_started' = TRUE
              /\ bound' = TRUE
    /\ UNCHANGED <<config_vars, archive_queue, events, taken, hook_vars>>

\* The engine dispatches NEW_ARCHIVE_RECORD; new_archive_record runs if bound.
NewArchiveRecord(record) ==
    /\ pc \in {"skipped", "missing", "running"}
    /\ events < MaxEvents
    /\ events' = events + 1
    /\ IF bound
         THEN /\ Len(archive_queue) < MaxQueue
              /\ archive_queue' = Append(archive_queue, record)
         ELSE UNCHANGED archive_queue
    /\ UNCHANGED <<config_vars, pc, queue_created, thread_started, archive_thread,
                   bound, taken, hook_vars>>

\* The base class hands a record to the hooks this extension overrides:
\* format_url (lines 195-199) and get_post_body (lines 202-216).
CallHooks(record) ==
    /\ hook_calls' = hook_calls + 1
    /\ in_record' = record
    /\ post_url' = format_url(archive_thread)
    /\ post_body' = get_post_body(archive_thread.station_id, record)

\* The started thread takes the oldest record off the queue (Queue.get) and
\* either hands it to the hooks or drops it.
RESTThreadGet(process) ==
    /\ thread_started
    /\ archive_queue # <<>>
    /\ archive_queue' = Tail(archive_queue)
    /\ taken' = taken + 1
    /\ IF process THEN CallHooks(Head(archive_queue)) ELSE UNCHANGED hook_vars
    /\ UNCHANGED <<config_vars, pc, queue_created, thread_started, archive_thread,
                   bound, events>>

Next ==
    \/ ServiceInit
    \/ \E record \in EventRecords : NewArchiveRecord(record)
    \/ \E process \in BOOLEAN : RESTThreadGet(process)

Spec == Init /\ [][Next]_vars

\* ------------------------------------------- get_post_body over all records
\* A running service about to be handed one record, any of AllRecords.
InitBody ==
    /\ weewx_has_post_body = TRUE
    /\ has_section = TRUE
    /\ parent_leaves = EmptyDict
    /\ section = [appid |-> "APPID", station_id |-> "STATION"]
    /\ pc = "running"
    /\ queue_created = TRUE
    /\ archive_queue = <<>>
    /\ thread_started = TRUE
    /\ archive_thread = OpenWeatherMapThread(FullSiteDict)
    /\ bound = TRUE
    /\ events = 1
    /\ taken = 1
    /\ hook_calls = 0
    /\ in_record \in AllRecords
    /\ post_url = NoUrl
    /\ post_body = NoBody

BuildBody ==
    /\ hook_calls = 0
    /\ CallHooks(in_record)
    /\ UNCHANGED <<config_vars, pc, queue_created, archive_queue, thread_started,
                   archive_thread, bound, events, taken>>

NextBody == BuildBody

SpecBody == InitBody /\ [][NextBody]_vars

\* ------------------------------------------------------------------- claims
\* The merged site configuration lacks the credential or the station id.
LacksRequired ==
    \/ ~has_section
    \/ "appid" \notin DOMAIN SiteDict
    \/ "station_id" \notin DOMAIN SiteDict

\* C1: when the site configuration lacks appid or station_id, construction
\* ends by returning (it never raises), and from then on there is no queue,
\* no started thread, no bound callback, no record enqueued, none taken by a
\* thread and none built into a request.
C1_ConfigErrorNeverStarts ==
    (pc # "new" /\ LacksRequired) =>
        /\ pc \in {"skipped", "missing"}
        /\ ~queue_created
        /\ ~thread_started
        /\ ~bound
        /\ archive_thread = EmptyDict
        /\ archive_queue = <<>>
        /\ taken = 0
        /\ hook_calls = 0
        /\ post_url = NoUrl
        /\ post_body = NoBody

\* The engine has dispatched every event it can after a construction that
\* found the credential but no station id.
C1_Witness ==
    /\ pc = "missing"
    /\ "appid" \in DOMAIN SiteDict
    /\ "station_id" \notin DOMAIN SiteDict
    /\ events > 1

\* C2: the payload get_post_body builds is a one-element list whose mapping
\* has exactly the keys station_id plus every target of _DATA_MAP whose
\* source field is present and not None in the metric-converted record;
\* station_id is the configured one and every other key holds
\* source * scale + offset.
C2_PayloadKeysAndValues ==
    hook_calls > 0 =>
        LET record == to_METRIC(in_record)
            included == {t \in Targets :
                            /\ DATA_MAP[t][1] \in DOMAIN record
                            /\ record[DATA_MAP[t][1]] # None}
        IN  /\ Len(post_body.data) = 1
            /\ DOMAIN post_body.data[1] = {"station_id"} \cup included
            /\ post_body.data[1]["station_id"] = archive_thread.station_id
            /\ \A t \in included :
                    post_body.data[1][t] =
                        DecAdd(DecMul(record[DATA_MAP[t][1]][1], DATA_MAP[t][2]),
                               DATA_MAP[t][3])

\* A METRICWX record without outHumidity, with outTemp None and a wind speed
\* of 5 m/s (18 km/h): no humidity, no temperature, wind_speed 4.9999999986.
C2_Witness ==
    /\ hook_calls > 0
    /\ in_record["usUnits"] = Num(METRICWX)
    /\ "outHumidity" \notin DOMAIN in_record
    /\ "outTemp" \in DOMAIN in_record
    /\ in_record["outTemp"] = None
    /\ "windSpeed" \in DOMAIN in_record
    /\ in_record["windSpeed"] = Num(5)
    /\ "humidity" \notin DOMAIN post_body.data[1]
    /\ "temperature" \notin DOMAIN post_body.data[1]
    /\ post_body.data[1]["wind_speed"] = <<499999, 99986>>

====
